---- MODULE Spec2Model ----
(***************************************************************************)
(* The local persistence layer of the insurance-claim form wizard          *)
(* (js/app.js): the in-memory AppState, the metadata snapshot kept in      *)
(* localStorage under 'insurance-claim-data', the IndexedDB object store   *)
(* 'files', the legacy migration started by loadFromStorage, the upload    *)
(* loop of FileHandler.processFiles and the submit / clear life cycle.     *)
(*                                                                         *)
(* One action per event handler or per resumption of an async function.    *)
(* A handler runs to completion (JavaScript's single thread); an async     *)
(* function runs up to its next await and is resumed by a later action.    *)
(***************************************************************************)
EXTENDS Integers, Sequences, FiniteSets, TLC

VARIABLES
    formData,          \* AppState.formData: field id -> value
    uploadedFiles,     \* AppState.uploadedFiles: the array of file objects
    dom,               \* value / checked of the form's input elements
    isSubmitted,       \* DataStorage.isSubmitted
    autoSaveInterval,  \* TRUE while the setInterval of init() is armed
    localStorage,      \* the item under storageKey: absent or its JSON value
    idb,               \* object store 'files' of osworld_claims_db: id -> blob
    mig,               \* position of the async migrateLegacy of this page
    reading,           \* position of the async processFiles of this page
    submitTimers,      \* pending setTimeout callbacks of submitClaim
    notes,             \* the error messages DataStorage and FileHandler showed
                       \* in the last handler, in order
    pageOpen,          \* TRUE while a page of the form (index.html) is open
    sw,                \* the service worker's fetch handler for /claim-data
    out,               \* what the last step gave to the outside: the files it
                       \* made the browser download, or the Response of the
                       \* service worker
    IDBHelper          \* the IDBHelper object of the page: its db field, the
                       \* indexedDB.open requests it has issued and its calls
                       \* in flight

vars == <<formData, uploadedFiles, dom, isSubmitted, autoSaveInterval,
          localStorage, idb, mig, reading, submitTimers, notes, pageOpen, sw, out,
          IDBHelper>>

(***************************************************************************)
(* Bounds of the model.                                                    *)
(***************************************************************************)
\* longest file list an upload may build
MaxFiles == 2
\* most records the object store may hold (page loads that would need more
\* are not taken)
MaxBlobs == 2
\* most submitClaim timers pending at once
MaxSubmit == 1

(***************************************************************************)
(* Values.                                                                 *)
(***************************************************************************)
\* FileHandler.maxFileSize
maxFileSize == 10 * 1024 * 1024
\* FileHandler.allowedTypes
allowedTypes == {"image/jpeg", "image/png", "image/gif", "application/pdf"}

\* File objects the user may select or drop: name, size, type and the bytes.
\* One accepted image of exactly the maximum size, one of a type outside the
\* allow-list, one a byte over the maximum.
UserFiles ==
    { [name |-> "photo.jpg", size |-> maxFileSize, type |-> "image/jpeg",
       bytes |-> "jpg-bytes"],
      [name |-> "notes.txt", size |-> 1024, type |-> "text/plain",
       bytes |-> "txt-bytes"],
      [name |-> "scan.png", size |-> maxFileSize + 1, type |-> "image/png",
       bytes |-> "png-bytes"] }

\* The file an older version of the page had uploaded.
OldFile ==
    [name |-> "claim.pdf", size |-> 2 * 1024 * 1024, type |-> "application/pdf",
     bytes |-> "pdf-bytes"]

\* btoa / atob on the bytes of a file
btoa(bytes) == <<"base64", bytes>>
atob(b64) == b64[2]

\* FileReader.readAsDataURL: "data:<type>;base64,<payload>"; split(',')[1] of
\* it is the field base64.
readAsDataURL(file) ==
    [scheme |-> "data", mime |-> file.type, base64 |-> btoa(file.bytes)]

\* canvas.toDataURL('image/png') of the signature canvas
SignatureDataURL ==
    [scheme |-> "data", mime |-> "image/png", base64 |-> btoa("signature-pixels")]

\* A slot of the uploadedFiles array: an object (its own properties are the
\* record's fields besides kind), the value null, or an empty slot.
Null == [kind |-> "null"]
Hole == [kind |-> "hole"]
IsObj(f) == f.kind = "obj"
Has(f, p) == IsObj(f) /\ p \in DOMAIN f

\* The input elements of the form, and which of them are checkboxes.
\* The model follows one input, the agreement checkbox.
Elements == {"agreement"}
Checkboxes == {"agreement"}
ElementValues(e) == IF e \in Checkboxes THEN BOOLEAN ELSE {"", "Jane Doe"}
\* The elements as the document has them before any script ran.
BlankDom == [e \in Elements |-> IF e \in Checkboxes THEN FALSE ELSE ""]

\* f with key k set to v (the key is added when absent).
Put(f, k, v) == [x \in (DOMAIN f) \cup {k} |-> IF x = k THEN v ELSE f[x]]
\* f without key k (the delete operator).
Delete(f, k) == [x \in (DOMAIN f) \ {k} |-> f[x]]
\* The empty object {}.
EmptyObject == [x \in {} |-> TRUE]

\* showMessage(text, 'error'), name being the file the text names (if any).
\* The messages of type success and info, and the validator's, are not
\* followed.
Err(text, name) == [text |-> text, name |-> name]

(***************************************************************************)
(* JSON: the text written to and read from localStorage.                   *)
(***************************************************************************)
\* The value undefined (the id of an object that has no id property).
Undefined == <<>>
\* An IndexedDB key made by migrateLegacy: `file-${Date.now()}-${random}`,
\* the n-th one made.
FileId(n) == <<"file", n>>

\* JSON.stringify of one form value: a checkbox's boolean or a string (an
\* input's text, or the signature's data URL).
JSONValue(k, v) ==
    IF k \in Checkboxes
    THEN [json |-> IF v THEN "true" ELSE "false"]
    ELSE [json |-> "string", text |-> v]
\* JSON.parse of it.
ParseValue(t) ==
    IF t.json = "true" THEN TRUE ELSE IF t.json = "false" THEN FALSE ELSE t.text

\* saveToStorage's map callback: file => ({id, name, size, type}).
MapFile(f) ==
    [kind |-> "obj",
     id |-> IF "id" \in DOMAIN f THEN f.id ELSE Undefined,
     name |-> f.name, size |-> f.size, type |-> f.type]
\* Array.prototype.map leaves an empty slot empty; the callback reads a
\* property of its argument, which throws a TypeError on null.
MapThrows(files) == \E i \in 1..Len(files) : files[i] = Null
MapFiles(files) ==
    [i \in 1..Len(files) |-> IF files[i] = Hole THEN Hole ELSE MapFile(files[i])]

\* JSON.stringify of a mapped entry: an empty slot is written as null, a
\* property whose value is undefined is left out.
StringifyFile(m) ==
    IF m = Hole THEN Null
    ELSE IF m.id = Undefined
         THEN [kind |-> "obj", name |-> m.name, size |-> m.size, type |-> m.type]
         ELSE m

\* new Date().toISOString(): the model keeps no clock.
Timestamp == "ISO-8601"

\* JSON.stringify(dataToSave) of saveToStorage.
StringifyData(fd, files) ==
    [kind |-> "json",
     formData |-> [k \in DOMAIN fd |-> JSONValue(k, fd[k])],
     uploadedFiles |-> [i \in 1..Len(files) |-> StringifyFile(MapFiles(files)[i])],
     timestamp |-> Timestamp]

\* No item under the storage key.
Absent == [kind |-> "absent"]

(***************************************************************************)
(* DataStorage.saveToStorage.  ok: localStorage.setItem did not throw (it  *)
(* throws when the quota is exceeded).  The result is the item afterwards  *)
(* and the messages shown.                                                 *)
(***************************************************************************)
SaveFailedMsg == Err("Failed to save metadata, please check storage space", "")

\* saveToStorage that removes the item before it writes the new one.
saveToStorage_RemovesFirst(sub, fd, files, item, ok) ==
    IF sub
    THEN [item |-> item, notes |-> <<>>]
    ELSE IF MapThrows(files) \/ ~ok
         THEN [item |-> Absent, notes |-> <<SaveFailedMsg>>]
         ELSE [item |-> StringifyData(fd, files), notes |-> <<>>]

\* saveToStorage that does not overwrite an item that is there.
saveToStorage_FirstWriteWins(sub, fd, files, item, ok) ==
    IF sub
    THEN [item |-> item, notes |-> <<>>]
    ELSE IF MapThrows(files) \/ ~ok
         THEN [item |-> item, notes |-> <<SaveFailedMsg>>]
         ELSE [item |-> IF item = Absent THEN StringifyData(fd, files) ELSE item,
               notes |-> <<>>]

\* saveToStorage without its test of isSubmitted.
saveToStorage_NoSubmitGuard(sub, fd, files, item, ok) ==
    IF MapThrows(files) \/ ~ok
    THEN [item |-> item, notes |-> <<SaveFailedMsg>>]
    ELSE [item |-> StringifyData(fd, files), notes |-> <<>>]

saveToStorage(sub, fd, files, item, ok) ==
    IF sub
    THEN [item |-> item, notes |-> <<>>]
    ELSE IF MapThrows(files) \/ ~ok
         THEN [item |-> item, notes |-> <<SaveFailedMsg>>]
         ELSE [item |-> StringifyData(fd, files), notes |-> <<>>]

(***************************************************************************)
(* collectFormData, fillFormData, displayUploadedFiles.                    *)
(***************************************************************************)
\* collectFormData: a checkbox always writes its checked state, another
\* input writes its value only when the value is not empty.
collectFormData(fd, d) ==
    [k \in (DOMAIN fd) \cup {e \in Elements : e \in Checkboxes \/ d[e] # ""} |->
        IF k \in Elements /\ (k \in Checkboxes \/ d[k] # "") THEN d[k] ELSE fd[k]]

\* fillFormData: every key of formData that is the id of an element sets it.
fillFormData(fd, d) ==
    [e \in Elements |-> IF e \in DOMAIN fd THEN fd[e] ELSE d[e]]

\* displayUploadedFiles: forEach skips an empty slot; the template reads
\* file.type, which throws on null.
DisplayThrows(files) == \E i \in 1..Len(files) : files[i] = Null

(***************************************************************************)
(* The legacy migration (the async function migrateLegacy started by       *)
(* loadFromStorage).  It runs its for loop up to the await of              *)
(* IDBHelper.putFile and is resumed when the put's transaction ends.       *)
(***************************************************************************)
\* `f && f.data`: an object that has a data property (a non-empty string).
IsLegacy(f) == IsObj(f) /\ "data" \in DOMAIN f

\* The first index from `from` on that holds a legacy entry; 0 when the loop
\* runs off the end of the array.  Indices are 1-based here, 0-based in JS.
MigScan(files, from) ==
    LET S == {j \in from..Len(files) : IsLegacy(files[j])}
    IN  IF S = {} THEN 0 ELSE CHOOSE j \in S : \A k \in S : j <= k

\* The Blob built from the data URL of a legacy entry.
DecodeBlob(f) == [bytes |-> atob(f.data.base64), type |-> f.type]

\* The key made for the next put: fresh, since no record is ever deleted.
NewId(store) == FileId(Cardinality(DOMAIN store) + 1)

\* No migrateLegacy was started (there was no item to load).
MigIdle == [pc |-> "idle"]
\* migrateLegacy has returned; migrated is its local flag.
MigDone(migrated) == [pc |-> "done", migrated |-> migrated]
\* migrateLegacy suspended on putFile(id, blob) for the entry f read at i.
MigPut(i, f, store, migrated) ==
    [pc |-> "put", i |-> i, f |-> f, id |-> NewId(store), blob |-> DecodeBlob(f),
     migrated |-> migrated]

\* The loop with a break in its catch: it ends at the first entry that
\* fails when none was migrated before.
MigFrom_BreaksOnFailure(files, from, store, migrated) ==
    LET j == MigScan(files, from)
    IN  IF j = 0 \/ (from > 1 /\ ~migrated)
        THEN MigDone(migrated)
        ELSE MigPut(j, files[j], store, migrated)

\* The loop from index `from` on: suspended on the next put, or over.
MigFrom(files, from, store, migrated) ==
    LET j == MigScan(files, from)
    IN  IF j = 0 THEN MigDone(migrated) ELSE MigPut(j, files[j], store, migrated)

\* arr[i] = v on a JavaScript array: writing past the end leaves empty slots.
WriteAt(arr, i, v) ==
    [k \in 1..(IF i > Len(arr) THEN i ELSE Len(arr)) |->
        IF k = i THEN v ELSE IF k <= Len(arr) THEN arr[k] ELSE Hole]

\* The reference form migrateLegacy writes in place of a legacy entry.
Migrated(id, f) ==
    [kind |-> "obj", id |-> id, name |-> f.name, size |-> f.size, type |-> f.type]

(***************************************************************************)
(* DataStorage.loadFromStorage, as the constructor calls it on a new page. *)
(***************************************************************************)
\* JSON.parse of the item: the form map and the file array.
ParsedFormData(item) == [k \in DOMAIN item.formData |-> ParseValue(item.formData[k])]
ParsedFiles(item) == item.uploadedFiles

\* AppState after loadFromStorage on a fresh page.
\* The item may also be a string the page did not write: one JSON.parse
\* rejects, or the JSON text of null or of a number.  loadFromStorage skips
\* an absent item; JSON.parse of the first throws, and so does the read of
\* parsedData.formData on null: the catch leaves AppState as it is, {} and [].
\* On a number both properties are undefined, which gives {} and [].
Unparsable == [kind |-> "text"]
NullItem == [kind |-> "null"]
NumberItem == [kind |-> "number"]
\* A load that fills the form with default values when it cannot read the item.
LoadedFormData_Defaults(item) ==
    IF item.kind = "json" THEN ParsedFormData(item)
    ELSE IF item = Absent THEN EmptyObject
    ELSE [k \in Elements |-> IF k \in Checkboxes THEN TRUE ELSE "Jane Doe"]
LoadedFormData(item) == IF item.kind = "json" THEN ParsedFormData(item) ELSE EmptyObject
LoadedFiles(item) == IF item.kind = "json" THEN ParsedFiles(item) ELSE <<>>
LoadedDom(item) == fillFormData(LoadedFormData(item), BlankDom)
LoadedMig(item, store) ==
    IF item.kind \in {"json", "number"}
    THEN MigFrom(LoadedFiles(item), 1, store, FALSE)
    ELSE MigIdle

(***************************************************************************)
(* FileHandler.validateFile and the loop of processFiles.                  *)
(***************************************************************************)
\* validateFile without its test of the size.
validateFile_NoSizeLimit(file) == file.type \in allowedTypes

validateFile(file) == file.type \in allowedTypes /\ file.size <= maxFileSize

\* The files of one drop or one selection, in order.
Batches ==
    LET jpg == CHOOSE u \in UserFiles : u.name = "photo.jpg"
        txt == CHOOSE u \in UserFiles : u.name = "notes.txt"
        png == CHOOSE u \in UserFiles : u.name = "scan.png"
    IN  {<<jpg>>, <<txt>>, <<png>>, <<png, jpg>>, <<jpg, txt>>}

\* The message validateFile shows for a file it rejects.
RejectMsg(file) ==
    IF file.type \notin allowedTypes
    THEN Err("Unsupported file type", file.name)
    ELSE Err("File too large (max 10MB)", file.name)

\* The loop of processFiles from its current file on, up to the first file
\* that passes validation (whose read it then awaits): the messages shown
\* for the rejected files before it, and that file with the ones after it.
RECURSIVE RejectNotes(_)
RejectNotes(files) ==
    IF files = <<>> \/ validateFile(Head(files)) THEN <<>>
    ELSE <<RejectMsg(Head(files))>> \o RejectNotes(Tail(files))

RECURSIVE SkipRejected(_)
SkipRejected(files) ==
    IF files = <<>> \/ validateFile(Head(files)) THEN files
    ELSE SkipRejected(Tail(files))

Accepted(files) == SelectSeq(files, validateFile)

\* The fileInfo object pushed for a file that was read.
FileInfo(file) ==
    [kind |-> "obj", name |-> file.name, size |-> file.size, type |-> file.type,
     data |-> readAsDataURL(file)]

(***************************************************************************)
(* Array.prototype.splice(index, 1), index as JavaScript gives it          *)
(* (0-based; a negative index counts from the end).                        *)
(***************************************************************************)
SpliceStart(len, index) ==
    IF index < 0 THEN (IF len + index < 0 THEN 0 ELSE len + index)
    ELSE (IF index > len THEN len ELSE index)

Splice(arr, index) ==
    LET start == SpliceStart(Len(arr), index)
    IN  IF start >= Len(arr) THEN arr
        ELSE [k \in 1..(Len(arr) - 1) |-> IF k <= start THEN arr[k] ELSE arr[k + 1]]

(***************************************************************************)
(* FormValidator.validateStep1 and validateStep2, as far as they read the  *)
(* inputs the model follows: the other required inputs of the two steps    *)
(* are taken as filled in with valid values throughout.                    *)
(***************************************************************************)
validateStep1(fd) ==
    IF "agreement" \in DOMAIN fd /\ fd["agreement"] THEN <<>>
    ELSE <<"Please read and agree to the terms and conditions">>

(***************************************************************************)
(* What a step gives to the outside, and the service worker (sw.js).       *)
(***************************************************************************)
\* The IDBHelper object as the script creates it: db is null (0), no
\* indexedDB.open was requested (opens) or has failed (errors), no call is
\* in flight.  Where a specification
\* follows putFile only by its outcome, the object is left out of account.
NewHelper == [db |-> 0, opens |-> 0, errors |-> 0, calls |-> <<>>]

\* The step started no download and returned no Response.
NoOutput == [kind |-> "none"]
\* No fetch of /claim-data is being handled.
SwIdle == [pc |-> "idle"]
\* No message is in flight on the reply channel.
NoMessage == [type |-> "none"]

\* new Response(JSON.stringify(body), {status}) of the fetch handler; the
\* status of a Response made without one is 200.
Response(status, body) == [kind |-> "response", status |-> status, body |-> body]
\* JSON.stringify({ error: e })
ErrorBody(e) == [kind |-> "json", error |-> e]

\* getClaimData that reads the item in localStorage instead of AppState.
getClaimData_FromStorage(fd, files) ==
    [formData |-> LoadedFormData(localStorage),
     uploadedFiles |-> LoadedFiles(localStorage),
     timestamp |-> Timestamp]

\* DataStorage.getClaimData(): formData and uploadedFiles as they are.
getClaimData(fd, files) ==
    [formData |-> fd, uploadedFiles |-> files, timestamp |-> Timestamp]
\* JSON.stringify(event.data.data) in the service worker: an empty slot of
\* the array is written as null, an object with all its properties.
StringifyClaimData(data) ==
    [kind |-> "json",
     formData |-> [k \in DOMAIN data.formData |-> JSONValue(k, data.formData[k])],
     uploadedFiles |-> [i \in 1..Len(data.uploadedFiles) |->
                          IF IsObj(data.uploadedFiles[i]) THEN data.uploadedFiles[i]
                          ELSE Null],
     timestamp |-> data.timestamp]

(***************************************************************************)
(* DataStorage.exportToFile and exportUploadedFiles.                       *)
(***************************************************************************)
\* No JSON document was downloaded.
NoDocument == [kind |-> "none"]
\* exportToFile's map callback and JSON.stringify of its result.
ExportEntry(f) ==
    IF f = Hole THEN Null
    ELSE [kind |-> "obj", name |-> f.name, size |-> f.size, type |-> f.type,
          dataRemoved |-> TRUE, note |-> "Original file saved separately"]
\* The JSON document exportToFile downloads.
ExportDocument(fd, files) ==
    [kind |-> "json",
     formData |-> [k \in DOMAIN fd |-> JSONValue(k, fd[k])],
     uploadedFiles |-> [i \in 1..Len(files) |-> ExportEntry(files[i])],
     exportTime |-> Timestamp,
     note |-> "Uploaded files are saved as separate files alongside this JSON"]
\* The timer exportUploadedFiles sets for the entry at index i (1-based): it
\* decodes file.data and downloads the blob; file.data.split throws when the
\* object has no data, and the catch shows a message instead.
ExportFile(i, f) ==
    IF "data" \in DOMAIN f
    THEN [kind |-> "download", file |-> <<i, f.name>>, type |-> f.type,
          bytes |-> atob(f.data.base64)]
    ELSE [kind |-> "failed", name |-> f.name]
\* exportUploadedFiles: forEach skips an empty slot.  The timers are taken
\* as all running (each holds its file object, whatever the array becomes).
exportUploadedFiles(files) ==
    SelectSeq([i \in 1..Len(files) |->
                  IF files[i] = Hole THEN Hole ELSE ExportFile(i, files[i])],
              LAMBDA d : d # Hole)
\* exportToFile: the map callback throws on null, and then nothing is
\* downloaded.
exportToFile(fd, files) ==
    IF MapThrows(files)
    THEN [kind |-> "export", json |-> NoDocument, downloads |-> <<>>]
    ELSE [kind |-> "export", json |-> ExportDocument(fd, files),
          downloads |-> exportUploadedFiles(files)]

(***************************************************************************)
(* Initial states: the page just constructed (new DataStorage()) over what *)
(* the browser profile holds: nothing, or a snapshot written by the older  *)
(* version of the page, whose file entries carry their data URL inline.    *)
(***************************************************************************)
LegacyFiles == {FileInfo(OldFile)}
LegacyLists == {<<f>> : f \in LegacyFiles}
LegacyForm == [k \in Elements |-> IF k \in Checkboxes THEN TRUE ELSE "Jane Doe"]
LegacyItem(files) ==
    [kind |-> "json",
     formData |-> [k \in DOMAIN LegacyForm |-> JSONValue(k, LegacyForm[k])],
     uploadedFiles |-> files,
     timestamp |-> Timestamp]
InitialItems == {Absent} \cup {LegacyItem(files) : files \in LegacyLists}

\* The in-memory state of a page constructed over the item and the store.
PageLoaded(item, store) ==
    /\ formData = LoadedFormData(item)
    /\ uploadedFiles = LoadedFiles(item)
    /\ dom = LoadedDom(item)
    /\ mig = LoadedMig(item, store)
    /\ isSubmitted = FALSE
    /\ autoSaveInterval = TRUE
    /\ reading = <<>>
    /\ submitTimers = 0

Init ==
    /\ localStorage \in InitialItems
    /\ idb = [x \in {} |-> TRUE]
    /\ PageLoaded(localStorage, idb)
    /\ notes = <<>>
    /\ pageOpen = TRUE
    /\ sw = SwIdle
    /\ out = NoOutput
    /\ IDBHelper = NewHelper

(***************************************************************************)
(* Handlers of the page.  setOk: localStorage.setItem does not throw.      *)
(***************************************************************************)
\* The outcomes of localStorage.setItem the specification follows: the quota
\* is not exceeded.
SetItemOutcomes == {TRUE}

\* A handler of the open page ran: it started no download and is no step of
\* the service worker.
PageStep ==
    /\ pageOpen
    /\ out' = NoOutput
    /\ UNCHANGED <<pageOpen, sw, IDBHelper>>

\* this.saveToStorage() at the end of a handler, on the state the handler
\* has built.
Save(fd, files, setOk) == saveToStorage(isSubmitted, fd, files, localStorage, setOk)

\* The change listener of an input: the user has set the element.
ChangeInput(e, v, setOk) ==
    /\ PageStep
    /\ v # dom[e]
    /\ LET d == [dom EXCEPT ![e] = v]
           fd == collectFormData(formData, d)
           r == Save(fd, uploadedFiles, setOk)
       IN  /\ dom' = d
           /\ formData' = fd
           /\ localStorage' = r.item
           /\ notes' = r.notes
    /\ UNCHANGED <<uploadedFiles, isSubmitted, autoSaveInterval, idb, mig, reading,
                   submitTimers>>

\* clearField(fieldId) for the id of an element.
ClearField(e, setOk) ==
    /\ PageStep
    /\ LET fd == Delete(formData, e)
           r == Save(fd, uploadedFiles, setOk)
       IN  /\ dom' = IF e \in Checkboxes THEN dom ELSE [dom EXCEPT ![e] = ""]
           /\ formData' = fd
           /\ localStorage' = r.item
           /\ notes' = r.notes
    /\ UNCHANGED <<uploadedFiles, isSubmitted, autoSaveInterval, idb, mig, reading,
                   submitTimers>>

\* window.confirmSignature(): the canvas as a data URL goes into formData.
ConfirmSignature(setOk) ==
    /\ PageStep
    /\ LET fd == Put(formData, "claimSignature", SignatureDataURL)
           r == Save(fd, uploadedFiles, setOk)
       IN  /\ formData' = fd
           /\ localStorage' = r.item
           /\ notes' = r.notes
    /\ UNCHANGED <<uploadedFiles, dom, isSubmitted, autoSaveInterval, idb, mig,
                   reading, submitTimers>>

\* The callback of the setInterval of init().
AutoSaveTick(setOk) ==
    /\ PageStep
    /\ autoSaveInterval
    /\ LET r == IF ~isSubmitted THEN Save(formData, uploadedFiles, setOk)
                ELSE [item |-> localStorage, notes |-> <<>>]
       IN  /\ localStorage' = r.item
           /\ notes' = r.notes
    /\ UNCHANGED <<formData, uploadedFiles, dom, isSubmitted, autoSaveInterval, idb,
                   mig, reading, submitTimers>>

\* DataStorage.removeFile(index).  displayUploadedFiles throws on a null
\* entry, and then the handler ends there, before saveToStorage.
RemoveFile(index, setOk) ==
    /\ PageStep
    /\ LET arr == Splice(uploadedFiles, index)
           r == Save(formData, arr, setOk)
       IN  /\ uploadedFiles' = arr
           /\ IF DisplayThrows(arr)
              THEN /\ localStorage' = localStorage
                   /\ notes' = <<>>
              ELSE /\ localStorage' = r.item
                   /\ notes' = r.notes
    /\ UNCHANGED <<formData, dom, isSubmitted, autoSaveInterval, idb, mig, reading,
                   submitTimers>>

\* clearStorage that leaves the session active.
ClearStorage_ResetsFlag ==
    /\ PageStep
    /\ isSubmitted' = FALSE
    /\ localStorage' = Absent
    /\ formData' = EmptyObject
    /\ uploadedFiles' = <<>>
    /\ autoSaveInterval' = FALSE
    /\ notes' = <<>>
    /\ UNCHANGED <<dom, idb, mig, reading, submitTimers>>

\* DataStorage.clearStorage().
ClearStorage ==
    /\ PageStep
    /\ isSubmitted' = TRUE
    /\ localStorage' = Absent
    /\ formData' = EmptyObject
    /\ uploadedFiles' = <<>>
    /\ autoSaveInterval' = FALSE
    /\ notes' = <<>>
    /\ UNCHANGED <<dom, idb, mig, reading, submitTimers>>

\* FileHandler.processFiles(files) from a drop or a selection, up to its first
\* await.  The model follows one processFiles at a time.
ProcessFiles(batch) ==
    /\ PageStep
    /\ reading = <<>>
    /\ Len(uploadedFiles) + Len(Accepted(batch)) <= MaxFiles
    /\ reading' = SkipRejected(batch)
    /\ notes' = RejectNotes(batch)
    /\ UNCHANGED <<formData, uploadedFiles, dom, isSubmitted, autoSaveInterval,
                   localStorage, idb, mig, submitTimers>>

\* processFiles resumed: the read of its current file has ended (readOk: with
\* onload, else with onerror); then the loop goes on to its next await.
ReadDone(readOk, setOk) ==
    /\ PageStep
    /\ reading # <<>>
    /\ LET file == Head(reading)
           arr == Append(uploadedFiles, FileInfo(file))
           r == Save(formData, arr, setOk)
           failed == Err("File processing failed", file.name)
           rest == Tail(reading)
       IN  /\ IF ~readOk
              THEN /\ uploadedFiles' = uploadedFiles
                   /\ localStorage' = localStorage
                   /\ notes' = <<failed>> \o RejectNotes(rest)
              ELSE /\ uploadedFiles' = arr
                   /\ IF DisplayThrows(arr)
                      THEN /\ localStorage' = localStorage
                           /\ notes' = <<failed>> \o RejectNotes(rest)
                      ELSE /\ localStorage' = r.item
                           /\ notes' = r.notes \o RejectNotes(rest)
           /\ reading' = SkipRejected(rest)
    /\ UNCHANGED <<formData, dom, isSubmitted, autoSaveInterval, idb, mig,
                   submitTimers>>

\* migrateLegacy resumed: the transaction of its put has ended (putOk: with
\* oncomplete, else with onerror); then the loop goes on to its next put, or
\* ends, saving when it migrated an entry.
MigratePutDone(putOk, setOk) ==
    /\ PageStep
    /\ mig.pc = "put"
    /\ LET store == IF putOk THEN Put(idb, mig.id, mig.blob) ELSE idb
           arr == IF putOk THEN WriteAt(uploadedFiles, mig.i, Migrated(mig.id, mig.f))
                  ELSE uploadedFiles
           migrated == putOk \/ mig.migrated
           next == MigFrom(arr, mig.i + 1, store, migrated)
           r == Save(formData, arr, setOk)
       IN  /\ next.pc = "put" => Cardinality(DOMAIN store) < MaxBlobs
           /\ idb' = store
           /\ uploadedFiles' = arr
           /\ mig' = next
           /\ IF next.pc = "done" /\ migrated
              THEN localStorage' = r.item /\ notes' = r.notes
              ELSE localStorage' = localStorage /\ notes' = <<>>
    /\ UNCHANGED <<formData, dom, isSubmitted, autoSaveInterval, reading,
                   submitTimers>>

\* submitClaim(), up to its setTimeout.
SubmitClaim ==
    /\ PageStep
    /\ LET fd == collectFormData(formData, dom)
           errors == validateStep1(fd)
       IN  /\ formData' = fd
           /\ IF errors # <<>>
              THEN /\ notes' = <<>>
                   /\ submitTimers' = submitTimers
              ELSE IF Len(uploadedFiles) = 0
              THEN /\ notes' = <<>>
                   /\ submitTimers' = submitTimers
              ELSE /\ submitTimers < MaxSubmit
                   /\ notes' = <<>>
                   /\ submitTimers' = submitTimers + 1
    /\ UNCHANGED <<uploadedFiles, dom, isSubmitted, autoSaveInterval, localStorage,
                   idb, mig, reading>>

\* The error exportToFile reports: its map callback throws on null.
ExportNotes(files) ==
    IF MapThrows(files) THEN <<Err("Data export failed", "")>> ELSE <<>>

\* The setTimeout callback of submitClaim without its clearInterval.
SubmitTimeout_KeepsInterval ==
    /\ pageOpen
    /\ submitTimers > 0
    /\ out' = exportToFile(formData, uploadedFiles)
    /\ submitTimers' = submitTimers - 1
    /\ notes' = ExportNotes(uploadedFiles)
    /\ isSubmitted' = TRUE
    /\ UNCHANGED <<formData, uploadedFiles, dom, localStorage, idb, mig, reading,
                   pageOpen, sw, autoSaveInterval, IDBHelper>>

\* The setTimeout callback of submitClaim.
SubmitTimeout ==
    /\ pageOpen
    /\ submitTimers > 0
    /\ out' = exportToFile(formData, uploadedFiles)
    /\ submitTimers' = submitTimers - 1
    /\ notes' = ExportNotes(uploadedFiles)
    /\ isSubmitted' = TRUE
    /\ autoSaveInterval' = FALSE
    /\ UNCHANGED <<formData, uploadedFiles, dom, localStorage, idb, mig, reading,
                   pageOpen, sw, IDBHelper>>

\* The page a REQUEST_CLAIM_DATA message was posted to is gone: the message
\* is never handled.
RequestLost(w) ==
    IF w.pc = "wait" /\ w.client = "app" THEN [w EXCEPT !.request = FALSE] ELSE w

\* The page is loaded anew (a reload, or a later visit): the old page's
\* memory, timers and suspended functions are gone, the stores stay.  A put
\* in flight has committed or not.
Reload(committed) ==
    /\ pageOpen
    /\ out' = NoOutput
    /\ sw' = RequestLost(sw)
    /\ idb' = IF mig.pc = "put" /\ committed THEN Put(idb, mig.id, mig.blob) ELSE idb
    /\ mig.pc # "put" => committed
    /\ LoadedMig(localStorage, idb').pc = "put" => Cardinality(DOMAIN idb') < MaxBlobs
    /\ formData' = LoadedFormData(localStorage)
    /\ uploadedFiles' = LoadedFiles(localStorage)
    /\ dom' = LoadedDom(localStorage)
    /\ mig' = LoadedMig(localStorage, idb')
    /\ isSubmitted' = FALSE
    /\ autoSaveInterval' = TRUE
    /\ reading' = <<>>
    /\ submitTimers' = 0
    /\ notes' = <<>>
    /\ UNCHANGED <<localStorage, pageOpen, IDBHelper>>

Next ==
    \/ \E e \in Elements, setOk \in SetItemOutcomes : \E v \in ElementValues(e) :
           ChangeInput(e, v, setOk)
    \/ \E e \in Elements, setOk \in SetItemOutcomes : ClearField(e, setOk)
    \/ \E setOk \in SetItemOutcomes : ConfirmSignature(setOk)
    \/ \E setOk \in SetItemOutcomes : AutoSaveTick(setOk)
    \/ \E index \in -1..Len(uploadedFiles), setOk \in SetItemOutcomes :
           RemoveFile(index, setOk)
    \/ ClearStorage
    \/ \E batch \in Batches : ProcessFiles(batch)
    \/ \E readOk \in BOOLEAN, setOk \in SetItemOutcomes : ReadDone(readOk, setOk)
    \/ \E putOk \in BOOLEAN, setOk \in SetItemOutcomes : MigratePutDone(putOk, setOk)
    \/ SubmitClaim
    \/ SubmitTimeout
    \/ \E committed \in BOOLEAN : Reload(committed)

Spec == Init /\ [][Next]_vars

\* The page with a storage whose quota may be exceeded: localStorage.setItem
\* stores the item, or throws and leaves the item as it was.
NextQuota ==
    \/ \E e \in Elements, setOk \in BOOLEAN : \E v \in ElementValues(e) :
           ChangeInput(e, v, setOk)
    \/ \E setOk \in BOOLEAN : AutoSaveTick(setOk)
    \/ \E index \in 0..(Len(uploadedFiles) - 1), setOk \in BOOLEAN :
           RemoveFile(index, setOk)
    \/ \E batch \in Batches : ProcessFiles(batch)
    \/ \E readOk \in BOOLEAN, setOk \in BOOLEAN : ReadDone(readOk, setOk)
    \/ \E putOk \in BOOLEAN, setOk \in BOOLEAN : MigratePutDone(putOk, setOk)
    \/ \E committed \in BOOLEAN : Reload(committed)

SpecQuota == Init /\ [][NextQuota]_vars

(***************************************************************************)
(* The bridge: the fetch handler of sw.js for /claim-data and the message  *)
(* handler of the page.  The model follows one request at a time.          *)
(***************************************************************************)
\* The page leaves (it is closed, or navigates away): its memory, timers and
\* suspended functions are gone.  A put in flight has committed or not.
ClosePage(committed) ==
    /\ pageOpen
    /\ pageOpen' = FALSE
    /\ idb' = IF mig.pc = "put" /\ committed THEN Put(idb, mig.id, mig.blob) ELSE idb
    /\ mig.pc # "put" => committed
    /\ sw' = RequestLost(sw)
    /\ formData' = EmptyObject
    /\ uploadedFiles' = <<>>
    /\ dom' = BlankDom
    /\ mig' = MigIdle
    /\ isSubmitted' = FALSE
    /\ autoSaveInterval' = FALSE
    /\ reading' = <<>>
    /\ submitTimers' = 0
    /\ notes' = <<>>
    /\ out' = NoOutput
    /\ UNCHANGED <<localStorage, IDBHelper>>

\* The page is opened: new DataStorage() over the stores as they are.
OpenPage ==
    /\ ~pageOpen
    /\ pageOpen' = TRUE
    /\ LoadedMig(localStorage, idb).pc = "put" => Cardinality(DOMAIN idb) < MaxBlobs
    /\ formData' = LoadedFormData(localStorage)
    /\ uploadedFiles' = LoadedFiles(localStorage)
    /\ dom' = LoadedDom(localStorage)
    /\ mig' = LoadedMig(localStorage, idb)
    /\ isSubmitted' = FALSE
    /\ autoSaveInterval' = TRUE
    /\ reading' = <<>>
    /\ submitTimers' = 0
    /\ notes' = <<>>
    /\ out' = NoOutput
    /\ UNCHANGED <<localStorage, idb, sw, IDBHelper>>

\* What clients.matchAll({includeUncontrolled: true}) may list first: the
\* form's page ("app"), a page of the origin that has no handler for the
\* request ("silent", as success.html), a page that answers with a message
\* of another type ("other"); "none" stands for the empty list.
FirstClients ==
    IF pageOpen THEN {"app", "silent", "other"} ELSE {"none", "silent", "other"}

\* The variables of the page and the stores.
pageVars == <<formData, uploadedFiles, dom, isSubmitted, autoSaveInterval,
              localStorage, idb, mig, reading, submitTimers, notes, pageOpen,
              IDBHelper>>

\* The fetch handler with no test of the length of the list: postMessage on
\* allClients[0], undefined, throws.
Fetch_NoLengthTest(client) ==
    /\ sw.pc = "idle"
    /\ client \in FirstClients
    /\ IF client = "none"
       THEN /\ sw' = SwIdle
            /\ out' = Response(500, ErrorBody("TypeError"))
       ELSE /\ sw' = [pc |-> "wait", client |-> client, request |-> TRUE,
                     reply |-> NoMessage]
            /\ out' = NoOutput
    /\ UNCHANGED pageVars

\* The fetch event of a request for /claim-data, up to the await of
\* responsePromise (or to the Response, with no client).
Fetch(client) ==
    /\ sw.pc = "idle"
    /\ client \in FirstClients
    /\ IF client = "none"
       THEN /\ sw' = SwIdle
            /\ out' = Response(500, ErrorBody("no-client"))
       ELSE /\ sw' = [pc |-> "wait", client |-> client, request |-> TRUE,
                     reply |-> NoMessage]
            /\ out' = NoOutput
    /\ UNCHANGED pageVars

\* The message handler of the page: it answers on the port it was given.
PageReply ==
    /\ pageOpen
    /\ sw.pc = "wait" /\ sw.client = "app" /\ sw.request
    /\ sw' = [sw EXCEPT !.request = FALSE,
                        !.reply = [type |-> "CLAIM_DATA_RESPONSE",
                                   data |-> getClaimData(formData, uploadedFiles)]]
    /\ out' = NoOutput
    /\ UNCHANGED pageVars

\* A page running other code answers with a message of another type.
ForeignReply ==
    /\ sw.pc = "wait" /\ sw.client = "other" /\ sw.request
    /\ sw' = [sw EXCEPT !.request = FALSE, !.reply = [type |-> "OTHER"]]
    /\ out' = NoOutput
    /\ UNCHANGED pageVars

\* onmessage without its test of the type of the message.
SwReceive_NoTypeTest ==
    /\ sw.pc = "wait" /\ sw.reply # NoMessage
    /\ sw' = SwIdle
    /\ out' = IF sw.reply.type = "CLAIM_DATA_RESPONSE"
              THEN Response(200, StringifyClaimData(sw.reply.data))
              ELSE Response(200, [kind |-> "json"])
    /\ UNCHANGED pageVars

\* msgChannel.port1.onmessage.
SwReceive ==
    /\ sw.pc = "wait" /\ sw.reply # NoMessage
    /\ sw' = SwIdle
    /\ out' = IF sw.reply.type = "CLAIM_DATA_RESPONSE"
              THEN Response(200, StringifyClaimData(sw.reply.data))
              ELSE Response(500, ErrorBody("no-data"))
    /\ UNCHANGED pageVars

\* The timer armed in onmessage instead of in the promise's executor: it
\* runs only once a message has come.
SwTimeout_ArmedOnMessage ==
    /\ sw.pc = "wait" /\ sw.reply # NoMessage
    /\ sw' = SwIdle
    /\ out' = Response(500, ErrorBody("timeout"))
    /\ UNCHANGED pageVars

\* The setTimeout of 1500 ms: reject('timeout'), caught by the handler.  A
\* message that comes after it finds the promise settled.
SwTimeout ==
    /\ sw.pc = "wait"
    /\ sw' = SwIdle
    /\ out' = Response(500, ErrorBody("timeout"))
    /\ UNCHANGED pageVars

NextBridge ==
    \/ \E e \in Elements, setOk \in SetItemOutcomes : \E v \in ElementValues(e) :
           ChangeInput(e, v, setOk)
    \/ \E batch \in Batches : ProcessFiles(batch)
    \/ \E readOk \in BOOLEAN, setOk \in SetItemOutcomes : ReadDone(readOk, setOk)
    \/ \E putOk \in BOOLEAN, setOk \in SetItemOutcomes : MigratePutDone(putOk, setOk)
    \/ \E committed \in BOOLEAN : ClosePage(committed)
    \/ OpenPage
    \/ \E client \in {"none", "app", "silent", "other"} : Fetch(client)
    \/ PageReply
    \/ ForeignReply
    \/ SwReceive
    \/ SwTimeout

SpecBridge == Init /\ [][NextBridge]_vars

\* The timer of the fetch handler fires unless it is cleared.
SpecBridgeFair == SpecBridge /\ WF_vars(SwTimeout)

\* Loading over whatever is under the storage key: the page is opened on a
\* profile whose item is absent, unreadable or one of the older version.
LoadItems ==
    {Absent, Unparsable, NullItem, NumberItem} \cup
        {LegacyItem(files) : files \in LegacyLists}

InitLoad ==
    /\ localStorage \in LoadItems
    /\ idb = [x \in {} |-> TRUE]
    /\ pageOpen = FALSE
    /\ formData = EmptyObject
    /\ uploadedFiles = <<>>
    /\ dom = BlankDom
    /\ mig = MigIdle
    /\ isSubmitted = FALSE
    /\ autoSaveInterval = FALSE
    /\ reading = <<>>
    /\ submitTimers = 0
    /\ notes = <<>>
    /\ sw = SwIdle
    /\ out = NoOutput
    /\ IDBHelper = NewHelper

NextLoad ==
    \/ OpenPage
    \/ \E committed \in BOOLEAN : ClosePage(committed)
    \/ \E e \in Elements, setOk \in SetItemOutcomes : \E v \in ElementValues(e) :
           ChangeInput(e, v, setOk)
    \/ \E batch \in Batches : ProcessFiles(batch)
    \/ \E readOk \in BOOLEAN, setOk \in SetItemOutcomes : ReadDone(readOk, setOk)
    \/ \E putOk \in BOOLEAN, setOk \in SetItemOutcomes : MigratePutDone(putOk, setOk)

SpecLoad == InitLoad /\ [][NextLoad]_vars

(***************************************************************************)
(* IDBHelper followed call by call: open(), then the transaction.  The     *)
(* migration's await of putFile is split at the await of open(): mig.pc is *)
(* "open" while indexedDB.open is pending and "tx" while the transaction   *)
(* is.  The object is a global of the page: calls of putFile, getFile and  *)
(* deleteFile may also come from outside the migration.                    *)
(***************************************************************************)
\* indexedDB.open requests and calls from outside the model follows.
MaxOpens == 3
MaxCalls == 2

\* The key the calls from outside use, and the blob they put.
ApiId == FileId(0)
ApiBlob == [bytes |-> "api-bytes", type |-> "text/plain"]
\* The key made for the next put of the migration.
MigId(store) == FileId(Cardinality(DOMAIN store \ {ApiId}) + 1)

\* open(): the handle in db when there is one, else a new indexedDB.open
\* request (requests are numbered; the handle a request gives has its number).
OpenPending(h) == h.db = 0
OpenIssued(h) == IF OpenPending(h) THEN [h EXCEPT !.opens = @ + 1] ELSE h

\* migrateLegacy from index `from` on, with the helper h: over, or inside
\* putFile for the next legacy entry, waiting for open() or for the
\* transaction.
MigCall(files, from, store, migrated, h) ==
    LET j == MigScan(files, from)
    IN  IF j = 0
        THEN MigDone(migrated)
        ELSE [pc |-> IF OpenPending(h) THEN "open" ELSE "tx",
              i |-> j, f |-> files[j], id |-> MigId(store),
              blob |-> DecodeBlob(files[j]), migrated |-> migrated,
              h |-> IF OpenPending(h) THEN OpenIssued(h).opens ELSE h.db]
HelperAfter(files, from, h) ==
    IF MigScan(files, from) = 0 THEN h ELSE OpenIssued(h)

\* The items a page of this specification starts from: none, or one of the
\* older version with one or two files inline.
IDBItems ==
    {Absent, LegacyItem(<<FileInfo(OldFile)>>),
     LegacyItem(<<FileInfo(OldFile),
                  FileInfo(CHOOSE u \in UserFiles : u.name = "photo.jpg")>>)}

InitIDB ==
    /\ localStorage \in IDBItems
    /\ idb = [x \in {} |-> TRUE]
    /\ formData = LoadedFormData(localStorage)
    /\ uploadedFiles = LoadedFiles(localStorage)
    /\ dom = LoadedDom(localStorage)
    /\ mig = IF localStorage = Absent THEN MigIdle
             ELSE MigCall(LoadedFiles(localStorage), 1, idb, FALSE, NewHelper)
    /\ IDBHelper = IF localStorage = Absent THEN NewHelper
                   ELSE HelperAfter(LoadedFiles(localStorage), 1, NewHelper)
    /\ isSubmitted = FALSE
    /\ autoSaveInterval = TRUE
    /\ reading = <<>>
    /\ submitTimers = 0
    /\ notes = <<>>
    /\ pageOpen = TRUE
    /\ sw = SwIdle
    /\ out = NoOutput

\* The rest of migrateLegacy once an entry is dealt with: the next putFile,
\* or the end of the loop and its save.
MigLoopOn(arr, store, migrated, h, setOk) ==
    LET next == MigCall(arr, mig.i + 1, store, migrated, h)
        r == Save(formData, arr, setOk)
    IN  /\ next.pc # "done" => Cardinality(DOMAIN store \ {ApiId}) < MaxBlobs
        /\ HelperAfter(arr, mig.i + 1, h).opens <= MaxOpens
        /\ mig' = next
        /\ IDBHelper' = HelperAfter(arr, mig.i + 1, h)
        /\ IF next.pc = "done" /\ migrated
           THEN localStorage' = r.item /\ notes' = r.notes
           ELSE localStorage' = localStorage /\ notes' = <<>>

\* The indexedDB.open request of the migration's putFile has ended
\* (openOk: onsuccess; else onerror, and putFile rejects into the catch of
\* migrateLegacy, which logs to the console).
MigOpenDone(openOk, setOk) ==
    /\ pageOpen
    /\ mig.pc = "open"
    /\ IF openOk
       THEN /\ mig' = [mig EXCEPT !.pc = "tx"]
            /\ IDBHelper' = [IDBHelper EXCEPT !.db = mig.h]
            /\ UNCHANGED <<localStorage, notes>>
       ELSE MigLoopOn(uploadedFiles, idb, mig.migrated,
                      [IDBHelper EXCEPT !.errors = @ + 1], setOk)
    /\ out' = NoOutput
    /\ UNCHANGED <<formData, uploadedFiles, dom, isSubmitted, autoSaveInterval, idb,
                   reading, submitTimers, pageOpen, sw>>

\* The transaction of the migration's putFile has ended.
MigTxDone(putOk, setOk) ==
    /\ pageOpen
    /\ mig.pc = "tx"
    /\ LET store == IF putOk THEN Put(idb, mig.id, mig.blob) ELSE idb
           arr == IF putOk THEN WriteAt(uploadedFiles, mig.i, Migrated(mig.id, mig.f))
                  ELSE uploadedFiles
       IN  /\ idb' = store
           /\ uploadedFiles' = arr
           /\ MigLoopOn(arr, store, putOk \/ mig.migrated, IDBHelper, setOk)
    /\ out' = NoOutput
    /\ UNCHANGED <<formData, dom, isSubmitted, autoSaveInterval, reading,
                   submitTimers, pageOpen, sw>>

\* putFile(ApiId, ApiBlob), getFile(ApiId) or deleteFile(ApiId) is called:
\* the call runs to its await of open(), or on to its transaction.
HelperCall(op) ==
    /\ pageOpen
    /\ Len(IDBHelper.calls) < MaxCalls
    /\ OpenIssued(IDBHelper).opens <= MaxOpens
    /\ LET h == OpenIssued(IDBHelper)
           call == [op |-> op,
                    pc |-> IF OpenPending(IDBHelper) THEN "open" ELSE "tx",
                    h |-> IF OpenPending(IDBHelper) THEN h.opens ELSE h.db]
       IN  IDBHelper' = [h EXCEPT !.calls = Append(@, call)]
    /\ out' = NoOutput
    /\ notes' = <<>>
    /\ UNCHANGED <<formData, uploadedFiles, dom, isSubmitted, autoSaveInterval,
                   localStorage, idb, mig, reading, submitTimers, pageOpen, sw>>

\* The sequence without its k-th element.
DropCall(calls, k) == [j \in 1..(Len(calls) - 1) |-> IF j < k THEN calls[j] ELSE calls[j + 1]]

\* The indexedDB.open request of the k-th call in flight has ended.
CallOpenDone(k, openOk) ==
    /\ pageOpen
    /\ k \in 1..Len(IDBHelper.calls)
    /\ IDBHelper.calls[k].pc = "open"
    /\ IDBHelper' =
          IF openOk
          THEN [IDBHelper EXCEPT !.db = IDBHelper.calls[k].h, !.calls[k].pc = "tx"]
          ELSE [IDBHelper EXCEPT !.errors = @ + 1, !.calls = DropCall(@, k)]
    /\ out' = NoOutput
    /\ notes' = <<>>
    /\ UNCHANGED <<formData, uploadedFiles, dom, isSubmitted, autoSaveInterval,
                   localStorage, idb, mig, reading, submitTimers, pageOpen, sw>>

\* The transaction of the k-th call in flight has ended.
CallTxDone(k, txOk) ==
    /\ pageOpen
    /\ k \in 1..Len(IDBHelper.calls)
    /\ IDBHelper.calls[k].pc = "tx"
    /\ idb' = IF ~txOk \/ IDBHelper.calls[k].op = "getFile" THEN idb
              ELSE IF IDBHelper.calls[k].op = "putFile" THEN Put(idb, ApiId, ApiBlob)
              ELSE Delete(idb, ApiId)
    /\ IDBHelper' = [IDBHelper EXCEPT !.calls = DropCall(@, k)]
    /\ out' = NoOutput
    /\ notes' = <<>>
    /\ UNCHANGED <<formData, uploadedFiles, dom, isSubmitted, autoSaveInterval,
                   localStorage, mig, reading, submitTimers, pageOpen, sw>>

NextIDB ==
    \/ \E e \in Elements, setOk \in SetItemOutcomes : \E v \in ElementValues(e) :
           ChangeInput(e, v, setOk)
    \/ \E batch \in Batches : ProcessFiles(batch)
    \/ \E readOk \in BOOLEAN, setOk \in SetItemOutcomes : ReadDone(readOk, setOk)
    \/ \E openOk \in BOOLEAN, setOk \in SetItemOutcomes : MigOpenDone(openOk, setOk)
    \/ \E putOk \in BOOLEAN, setOk \in SetItemOutcomes : MigTxDone(putOk, setOk)
    \/ \E op \in {"putFile", "getFile", "deleteFile"} : HelperCall(op)
    \/ \E k \in 1..MaxCalls, openOk \in BOOLEAN : CallOpenDone(k, openOk)
    \/ \E k \in 1..MaxCalls, txOk \in BOOLEAN : CallTxDone(k, txOk)

SpecIDB == InitIDB /\ [][NextIDB]_vars

(***************************************************************************)
(* Properties.                                                             *)
(***************************************************************************)
\* Restriction of a function to part of its domain.
Restrict(f, S) == [x \in (DOMAIN f) \cap S |-> f[x]]
\* The descriptor fields of the reference form.
RefFields == {"kind", "id", "name", "size", "type"}
\* An entry of the file list cut down to the reference form.
RefForm(f) == IF IsObj(f) THEN Restrict(f, RefFields) ELSE f
\* The entry as JSON holds it: an empty slot and null are both null.
RefJSON(f) == IF IsObj(f) THEN Restrict(f, RefFields) ELSE Null
\* The item holds exactly the form map fd and the file list in reference form.
SnapshotMatches(item, fd, files) ==
    /\ item # Absent
    /\ ParsedFormData(item) = fd
    /\ Len(item.uploadedFiles) = Len(files)
    /\ \A k \in 1..Len(files) : item.uploadedFiles[k] = RefJSON(files[k])

\* C1: once isSubmitted is true, no call of saveToStorage (from an event
\* handler, the auto-save timer or the end of the migration) changes the item
\* under the storage key: every step of a page whose isSubmitted is true,
\* other than clearStorage's own removeItem, leaves the item as it was.
C1_NoSaveAfterSubmit ==
    [][(isSubmitted /\ ~ClearStorage) => localStorage' = localStorage]_vars

\* A signature was confirmed (confirmSignature calls saveToStorage) on a
\* submitted page whose item lacks it: the call changed nothing.
C1_Witness ==
    /\ isSubmitted
    /\ localStorage # Absent
    /\ ~MapThrows(uploadedFiles)
    /\ "claimSignature" \in DOMAIN formData
    /\ "claimSignature" \notin DOMAIN localStorage.formData

\* C2: round trip.  In every state of an active session, saveToStorage
\* followed by loadFromStorage on a fresh page gives back formData exactly
\* and the file list as the same sequence of reference-form descriptors.
C2_RoundTrip ==
    ~isSubmitted =>
        LET item == saveToStorage(isSubmitted, formData, uploadedFiles,
                                  localStorage, TRUE).item
        IN  /\ LoadedFormData(item) = formData
            /\ LoadedFiles(item) =
                   [i \in 1..Len(uploadedFiles) |-> RefForm(uploadedFiles[i])]

\* C3: every entry of uploadedFiles has an id under which the object store
\* holds a record, or is in legacy form (inline data and no id).
C3_EntriesResolvable ==
    \A i \in 1..Len(uploadedFiles) :
        LET f == uploadedFiles[i]
        IN  \/ Has(f, "id") /\ f.id \in DOMAIN idb
            \/ Has(f, "data") /\ ~Has(f, "id")

\* C4: an accepted file that was read makes the file list one longer, and
\* the object store returns the uploaded bytes under the id of the new
\* descriptor.
C4_UploadStored ==
    [][ReadDone(TRUE, TRUE) =>
           /\ Len(uploadedFiles') = Len(uploadedFiles) + 1
           /\ LET d == uploadedFiles'[Len(uploadedFiles')]
              IN  /\ Has(d, "id")
                  /\ d.id \in DOMAIN idb'
                  /\ idb'[d.id].bytes = Head(reading).bytes]_vars

\* The claim's own reading of "rejected": a type outside the allow-list or a
\* size over 10 MB.
Rejectable(file) ==
    \/ file.type \notin {"image/jpeg", "image/png", "image/gif", "application/pdf"}
    \/ file.size > 10 * 1024 * 1024
IsRejection(n) == n.text \in {"Unsupported file type", "File too large (max 10MB)"}
\* The names of the files the rejection messages among ns are about, in order.
RejectedNames(ns) ==
    LET rs == SelectSeq(ns, IsRejection) IN [i \in 1..Len(rs) |-> rs[i].name]
\* The upload loop had the files `before` left to look at and goes on to
\* reading': it has passed a run of rejected files, with exactly one rejection
\* message for each, none of them entering the file list or the item, and has
\* stopped at the next file that is not rejected, which it reads.
LoopSkips(before) ==
    LET n == Len(before) - Len(reading')
        skipped == SubSeq(before, 1, n)
    IN  /\ n >= 0
        /\ reading' = SubSeq(before, n + 1, Len(before))
        /\ \A i \in 1..n : Rejectable(skipped[i])
        /\ reading' # <<>> => ~Rejectable(Head(reading'))
        /\ RejectedNames(notes') = [i \in 1..n |-> skipped[i].name]
        /\ \A i \in 1..n :
              /\ \A k \in 1..Len(uploadedFiles') :
                    IsObj(uploadedFiles'[k]) => uploadedFiles'[k].name # skipped[i].name
              /\ localStorage' # Absent =>
                    \A k \in 1..Len(localStorage'.uploadedFiles) :
                        IsObj(localStorage'.uploadedFiles[k]) =>
                            localStorage'.uploadedFiles[k].name # skipped[i].name

\* C5: a file whose type is not in the allow-list or whose size exceeds 10 MB
\* is rejected: the file list and the item are unchanged by it, exactly one
\* rejection message is shown for it, and the other files of the batch are
\* processed as if it were absent.
C5_RejectedFilesSkipped ==
    [][/\ \A batch \in Batches :
              ProcessFiles(batch) =>
                  /\ LoopSkips(batch)
                  /\ uploadedFiles' = uploadedFiles
                  /\ localStorage' = localStorage
       /\ (\E readOk \in BOOLEAN : ReadDone(readOk, TRUE)) =>
              /\ LoopSkips(Tail(reading))
              /\ ~Rejectable(Head(reading))
              /\ uploadedFiles' \in {uploadedFiles,
                                     Append(uploadedFiles, FileInfo(Head(reading)))}]_vars

\* scan.png, a byte over the limit, was rejected with one message and the
\* loop went on to read photo.jpg, the file after it in the batch.
C5_Witness ==
    /\ Len(reading) = 1
    /\ reading[1].name = "photo.jpg"
    /\ notes = <<Err("File too large (max 10MB)", "scan.png")>>

\* C6: removeFile(index) with index < 0 or index >= length leaves the file
\* list unchanged.
C6_RemoveOutOfRange ==
    [][\A index \in {-1, Len(uploadedFiles)} :
           RemoveFile(index, TRUE) => uploadedFiles' = uploadedFiles]_vars

\* The array without its entry at the 0-based index.
Without(arr, index) ==
    [k \in 1..(Len(arr) - 1) |-> IF k <= index THEN arr[k] ELSE arr[k + 1]]

\* C7: removeFile(i) with 0 <= i < length removes exactly the i-th
\* descriptor (the list is one shorter, the others keep their order) and,
\* while the session is active, the item is rewritten to match.
C7_RemoveInRange ==
    [][\A index \in 0..(Len(uploadedFiles) - 1) :
           RemoveFile(index, TRUE) =>
               /\ Len(uploadedFiles') = Len(uploadedFiles) - 1
               /\ uploadedFiles' = Without(uploadedFiles, index)
               /\ ~isSubmitted =>
                      SnapshotMatches(localStorage', formData', uploadedFiles')]_vars

\* C8: migration idempotence.  Once migrateLegacy has returned having
\* migrated the legacy entries, a second run, on a page loaded anew from the
\* item, finds nothing to migrate and so writes no further record.
C8_MigrationIdempotent ==
    (mig.pc = "done" /\ mig.migrated /\ MigScan(uploadedFiles, 1) = 0) =>
        LoadedMig(localStorage, idb).pc # "put"

\* C9: no record of the object store is orphaned: with no put in flight,
\* every key of the store is the id of a descriptor of the file list.
C9_NoOrphanedBlob ==
    mig.pc # "put" =>
        \A id \in DOMAIN idb :
            \E i \in 1..Len(uploadedFiles) :
                Has(uploadedFiles[i], "id") /\ uploadedFiles[i].id = id

\* The data URLs the page can hold, as JSON strings.
DataURLTokens ==
    {[json |-> "string", text |-> u] :
        u \in {SignatureDataURL} \cup {readAsDataURL(f) : f \in UserFiles \cup {OldFile}}}
\* The item holds no inline-encoded content.
NoBinary(item) ==
    /\ \A k \in DOMAIN item.formData : item.formData[k] \notin DataURLTokens
    /\ \A i \in 1..Len(item.uploadedFiles) : ~Has(item.uploadedFiles[i], "data")

\* C10: every value saveToStorage writes under the storage key holds the
\* form map, descriptors of id/name/size/type and a timestamp, and no
\* inline-encoded file or image data.
C10_NoBinaryInSnapshot ==
    [][(localStorage' # localStorage /\ localStorage' # Absent) =>
           NoBinary(localStorage')]_vars

\* C11: isSubmitted is one-way: it starts false, and once it is true no
\* operation of the session (a step of the page that holds the DataStorage
\* object) sets it back to false.
C11_SubmittedOneWay ==
    [][(isSubmitted /\ ~(\E committed \in BOOLEAN : Reload(committed))) =>
           isSubmitted']_vars

\* clearStorage has run (the flag is set, the item is gone) and a file has
\* entered the list since: the page went on working with the flag set.
C11_Witness ==
    /\ isSubmitted
    /\ localStorage = Absent
    /\ Len(uploadedFiles) > 0

\* C12: whenever isSubmitted becomes true the auto-save interval is cleared
\* in the same step, so no auto-save tick fires on a submitted page.
C12_NoSweepAfterSubmit == isSubmitted => ~autoSaveInterval

\* submitClaim's timeout has set the flag (the item is still there) and the
\* interval is cleared.
C12_Witness ==
    /\ isSubmitted
    /\ ~autoSaveInterval
    /\ localStorage # Absent

\* C13: a request for /claim-data that finds no page of the origin (the list
\* of clients is empty) is answered at once with status 500 and the body
\* {"error":"no-client"}; no message is posted and the handler waits for none.
C13_NoClient ==
    [][Fetch("none") =>
          /\ out' = [kind |-> "response", status |-> 500,
                     body |-> [kind |-> "json", error |-> "no-client"]]
          /\ sw'.pc = "idle"
          /\ "request" \notin DOMAIN sw']_vars

\* The form was filled and saved, its page closed, and the request answered.
C13_Witness ==
    /\ ~pageOpen
    /\ localStorage # Absent
    /\ out.kind = "response" /\ out.status = 500 /\ out.body.error = "no-client"

\* C14: every request for /claim-data is answered: a request the handler is
\* waiting on leads to a response, the 500 of the timeout if the page never
\* replies.
C14_EveryRequestAnswered == (sw.pc = "wait") ~> (out.kind = "response")

\* The timeout answered a request while the form's page was open.
C14_Witness ==
    /\ pageOpen
    /\ sw.pc = "idle"
    /\ out.kind = "response" /\ out.status = 500 /\ out.body.error = "timeout"

\* C15: the snapshot the bridge serves never holds the content of a file:
\* every entry of uploadedFiles in the body of a 200 response is a descriptor
\* (id, name, size, type) with no inline data.
C15_SnapshotDescriptorsOnly ==
    (out.kind = "response" /\ out.status = 200) =>
        \A i \in 1..Len(out.body.uploadedFiles) :
            ~Has(out.body.uploadedFiles[i], "data")

\* C16: the response of the bridge is 200 with the snapshot the page posted,
\* as JSON, exactly when a CLAIM_DATA_RESPONSE message is received before the
\* timer fires; every other response (no client, timeout, a message of
\* another type) is 500 with a body of the single member error.
C16_StatusByOutcome ==
    [][out'.kind = "response" =>
          IF sw.pc = "wait" /\ sw.reply.type = "CLAIM_DATA_RESPONSE"
                /\ out'.body # [kind |-> "json", error |-> "timeout"]
          THEN /\ out'.status = 200
               /\ out'.body.kind = "json"
               /\ DOMAIN out'.body.formData = DOMAIN sw.reply.data.formData
               /\ Len(out'.body.uploadedFiles) = Len(sw.reply.data.uploadedFiles)
               /\ out'.body.timestamp = sw.reply.data.timestamp
          ELSE /\ out'.status = 500
               /\ DOMAIN out'.body = {"kind", "error"}
               /\ out'.body.error \in {"no-client", "timeout", "no-data"}]_vars

\* A request was answered 200 with a snapshot that lists a file.
C16_Witness ==
    /\ out.kind = "response" /\ out.status = 200
    /\ Len(out.body.uploadedFiles) > 0
    /\ sw.pc = "idle"

\* C17: in every state of the session, a reloaded or migrated one included,
\* export starts exactly one download per entry of the file list, and the
\* download of an entry has the name, type and bytes of the file uploaded.
C17_OneDownloadPerFile ==
    out.kind = "export" =>
        /\ Len(out.downloads) = Len(uploadedFiles)
        /\ \A i \in 1..Len(uploadedFiles) :
              /\ out.downloads[i].kind = "download"
              /\ \E u \in UserFiles \cup {OldFile} :
                    /\ out.downloads[i].file = <<i, u.name>>
                    /\ u.name = uploadedFiles[i].name
                    /\ out.downloads[i].type = u.type
                    /\ out.downloads[i].bytes = u.bytes

\* C18: the JSON document of an export lists one entry per entry of the file
\* list, in the order of the list, each made of name, size, type,
\* dataRemoved = true and a note, with no content of the file.
C18_DocumentListsDescriptors ==
    out.kind = "export" =>
        /\ out.json.kind = "json"
        /\ Len(out.json.uploadedFiles) = Len(uploadedFiles)
        /\ \A i \in 1..Len(uploadedFiles) :
              /\ IsObj(uploadedFiles[i])
              /\ out.json.uploadedFiles[i] =
                    [kind |-> "obj",
                     name |-> uploadedFiles[i].name,
                     size |-> uploadedFiles[i].size,
                     type |-> uploadedFiles[i].type,
                     dataRemoved |-> TRUE,
                     note |-> "Original file saved separately"]

\* saveToStorage, called on the list `files` by a handler of an active
\* session, fails: setItem throws (ok is false) or the map callback throws.
SaveFails(files, ok) == ~isSubmitted /\ (~ok \/ MapThrows(files))
\* The item is as it was, and the error message is shown.
FailureContained ==
    /\ localStorage' = localStorage
    /\ \E i \in 1..Len(notes') : notes'[i] = SaveFailedMsg
    /\ UNCHANGED <<isSubmitted, autoSaveInterval>>

\* C19: when saveToStorage fails (the quota is exceeded, or the list cannot be
\* serialized) the item stored before is left as it was, the memory of the
\* session is what the handler made of it (untouched, for the auto-save),
\* the error is shown, and the handler that called it runs on to its end.
C19_SaveFailureContained ==
    [][\A ok \in BOOLEAN :
          /\ (AutoSaveTick(ok) /\ SaveFails(uploadedFiles, ok)) =>
                 /\ FailureContained
                 /\ UNCHANGED <<formData, uploadedFiles, dom>>
          /\ \A e \in Elements : \A v \in ElementValues(e) :
                 (ChangeInput(e, v, ok) /\ SaveFails(uploadedFiles, ok)) =>
                     /\ FailureContained
                     /\ dom'[e] = v /\ formData'[e] = v
                     /\ UNCHANGED uploadedFiles
          /\ (ReadDone(TRUE, ok) /\ ~DisplayThrows(uploadedFiles')
                  /\ SaveFails(uploadedFiles', ok)) =>
                 /\ FailureContained
                 /\ uploadedFiles' = Append(uploadedFiles, FileInfo(Head(reading)))
                 /\ reading' = SkipRejected(Tail(reading))
                 /\ UNCHANGED formData
          /\ \A index \in 0..(Len(uploadedFiles) - 1) :
                 (RemoveFile(index, ok) /\ ~DisplayThrows(uploadedFiles')
                      /\ SaveFails(uploadedFiles', ok)) =>
                     /\ FailureContained
                     /\ Len(uploadedFiles') = Len(uploadedFiles) - 1
                     /\ UNCHANGED formData
          /\ \A putOk \in BOOLEAN :
                 (MigratePutDone(putOk, ok) /\ mig'.pc = "done" /\ mig'.migrated
                      /\ SaveFails(uploadedFiles', ok)) =>
                     /\ FailureContained
                     /\ UNCHANGED formData]_vars

\* The quota was exceeded when a file was added: the file is in the list, the
\* message is shown and the item is the one of before, without the file.
C19_Witness ==
    /\ \E i \in 1..Len(notes) : notes[i] = SaveFailedMsg
    /\ ~isSubmitted
    /\ localStorage # Absent
    /\ Len(uploadedFiles) > Len(localStorage.uploadedFiles)
    /\ \A i \in 1..Len(uploadedFiles) : IsObj(uploadedFiles[i])

C21_MigrationRewritesSnapshot ==
    [][(mig.pc = "put" /\ mig'.pc = "done" /\ mig'.migrated) =>
          \/ localStorage' = Absent
          \/ \A i \in 1..Len(localStorage'.uploadedFiles) :
                ~IsLegacy(localStorage'.uploadedFiles[i])]_vars

\* C22: on an active session, a step of the page that changes the form map
\* or the file list (other than a write of the migration, or the load of a
\* new page) saves in the same step: when the list can be serialized, the
\* item after the step holds the form map and the list in reference form.
C22_MutationsSave ==
    [][(/\ ~isSubmitted /\ ~isSubmitted'
        /\ <<formData, uploadedFiles>>' # <<formData, uploadedFiles>>
        /\ mig' = mig
        /\ ~(\E committed \in BOOLEAN : Reload(committed))
        /\ ~MapThrows(uploadedFiles')) =>
           SnapshotMatches(localStorage', formData', uploadedFiles')]_vars

\* C23: once an indexedDB.open has failed the session is degraded: the helper
\* requests no further open, and the user is warned, by the step of the first
\* failure and by no later one.
C23_DegradedAfterOpenFailure ==
    [][/\ IDBHelper'.opens > IDBHelper.opens => IDBHelper'.errors = 0
       /\ IDBHelper'.errors > IDBHelper.errors =>
              (IDBHelper.errors = 0 <=> notes' # <<>>)]_vars

\* C24: open() is idempotent: while no open has failed the helper has
\* requested at most one indexedDB.open, and every call that is in its
\* transaction, of the migration or from outside, uses the handle in db.
C24_OpenedOnce ==
    /\ IDBHelper.errors = 0 => IDBHelper.opens <= 1
    /\ mig.pc = "tx" => mig.h = IDBHelper.db
    /\ \A k \in 1..Len(IDBHelper.calls) :
          IDBHelper.calls[k].pc = "tx" => IDBHelper.calls[k].h = IDBHelper.db

\* C25: a 200 response of the bridge carries the session in memory as it was
\* at the one instant the page's handler ran: the message the handler posts
\* holds formData and uploadedFiles of that state, whole and whatever the item
\* in localStorage holds, and the body of the response is that message as
\* JSON (an empty slot reads null).
C25_ResponseIsMemoryAtReply ==
    [][/\ (sw'.pc = "wait" /\ sw.pc = "wait" /\ sw'.reply # sw.reply
              /\ sw'.reply.type = "CLAIM_DATA_RESPONSE") =>
             /\ sw'.reply.data.formData = formData
             /\ sw'.reply.data.uploadedFiles = uploadedFiles
       /\ (out'.kind = "response" /\ out'.status = 200) =>
             /\ DOMAIN out'.body.formData = DOMAIN sw.reply.data.formData
             /\ \A k \in DOMAIN out'.body.formData :
                   ParseValue(out'.body.formData[k]) = sw.reply.data.formData[k]
             /\ Len(out'.body.uploadedFiles) = Len(sw.reply.data.uploadedFiles)
             /\ \A i \in 1..Len(out'.body.uploadedFiles) :
                   out'.body.uploadedFiles[i] =
                       IF IsObj(sw.reply.data.uploadedFiles[i])
                       THEN sw.reply.data.uploadedFiles[i] ELSE Null]_vars

\* A 200 response that shows a change of the memory the item does not hold:
\* an entry the migration has rewritten with its id, not saved yet.
C25_Witness ==
    /\ out.kind = "response" /\ out.status = 200
    /\ localStorage # Absent
    /\ \E i \in 1..Len(out.body.uploadedFiles) :
          /\ Has(out.body.uploadedFiles[i], "id")
          /\ i <= Len(localStorage.uploadedFiles)
          /\ ~Has(localStorage.uploadedFiles[i], "id")

\* C26: the latest write wins: whichever handler, sweep or migration end
\* writes the item, what it writes is the whole session in memory as it is
\* at that write, in reference form, and a save of the sweep, of a change
\* listener or of the end of the migration that succeeds does write it;
\* between writes the item does not change, so it never goes back to an
\* older state.
C26_LatestWriteWins ==
    [][/\ (localStorage' # localStorage /\ localStorage' # Absent) =>
              SnapshotMatches(localStorage', formData', uploadedFiles')
       /\ (/\ ~isSubmitted /\ ~MapThrows(uploadedFiles')
           /\ \/ AutoSaveTick(TRUE)
              \/ \E e \in Elements : \E v \in ElementValues(e) : ChangeInput(e, v, TRUE)
              \/ \E putOk \in BOOLEAN :
                    MigratePutDone(putOk, TRUE) /\ mig'.pc = "done" /\ mig'.migrated) =>
              SnapshotMatches(localStorage', formData', uploadedFiles')]_vars

\* The save at the end of the migration came after the save of an upload and
\* its item holds both files as the memory has them.
C26_Witness ==
    /\ mig.pc = "done" /\ mig.migrated
    /\ Len(uploadedFiles) = 2
    /\ \A i \in 1..2 : IsObj(uploadedFiles[i])
    /\ Has(uploadedFiles[1], "id")
    /\ ~isSubmitted
    /\ SnapshotMatches(localStorage, formData, uploadedFiles)

\* C27: after clearStorage the session stays empty: from the state
\* clearStorage leaves (flag set, item absent, map and list empty) no step of
\* the page, in particular none of an operation that was suspended when
\* clearStorage ran, puts an entry into the file list or writes the item.
C27_StaysCleared ==
    [][(/\ isSubmitted /\ localStorage = Absent
        /\ formData = EmptyObject /\ uploadedFiles = <<>>
        /\ ~(\E committed \in BOOLEAN : Reload(committed))) =>
           (uploadedFiles' = <<>> /\ localStorage' = Absent)]_vars

\* C28: the migration replaces a legacy entry in place: when the put ends and
\* the migration writes the list, the slot it writes still holds the entry it
\* read before the put, whatever removeFile or an upload did meanwhile; the
\* write changes no other slot and does not lengthen the list.
C28_MigrationWritesItsOwnSlot ==
    [][(/\ mig.pc = "put" /\ mig' # mig
        /\ ~(\E committed \in BOOLEAN : Reload(committed))
        /\ uploadedFiles' # uploadedFiles) =>
           /\ mig.i <= Len(uploadedFiles)
           /\ uploadedFiles[mig.i] = mig.f
           /\ Len(uploadedFiles') = Len(uploadedFiles)
           /\ \A k \in 1..Len(uploadedFiles) :
                 k # mig.i => uploadedFiles'[k] = uploadedFiles[k]]_vars

\* C29: loading over an item that is absent, that JSON.parse rejects or that
\* is no object gives the empty session: the form map and the file list are
\* empty, no message is shown and the page is up, no put of a migration is
\* started, and the item and the object store are left as they are.
C29_UnreadableItemLoadsEmpty ==
    [][(OpenPage /\ localStorage.kind \in {"absent", "text", "null", "number"}) =>
           /\ formData' = EmptyObject
           /\ uploadedFiles' = <<>>
           /\ notes' = <<>>
           /\ pageOpen' /\ autoSaveInterval' /\ ~isSubmitted'
           /\ mig'.pc # "put"
           /\ localStorage' = localStorage
           /\ idb' = idb]_vars

\* A page is open over an item JSON.parse rejects, with an empty session.
C29_Witness ==
    /\ pageOpen
    /\ localStorage = Unparsable
    /\ formData = EmptyObject /\ uploadedFiles = <<>>
    /\ mig = MigIdle

\* C30: submission finalizes only a session that passes the checks of
\* submitClaim: in the step of the timer, which exports and sets isSubmitted,
\* the file list is not empty and the validator of step 1 reports no error
\* on the form map, whatever ran since submitClaim was called.
C30_FinalizesValidSession ==
    [][out'.kind = "export" =>
          /\ Len(uploadedFiles) > 0
          /\ validateStep1(formData) = <<>>]_vars

====
